---- MODULE Spec2Model ----
(***************************************************************************)
(* Model of backend/fuzzy_aggregator.py (splint-advisor): the fuzzy        *)
(* aggregation of a clinical result (agent 1) and an NIH/PubMed result     *)
(* (agent 2).                                                              *)
(*                                                                         *)
(* Conventions                                                             *)
(*  - A Python str is a sequence of code points (<<97>> is "a").           *)
(*  - A Python number is an exact rational <<num, den>>, den > 0, in       *)
(*    lowest terms.  The weights drawn below are binary fractions or the   *)
(*    decimal literals of the source, on which the float arithmetic of     *)
(*    the source and the exact arithmetic agree.                           *)
(*  - A Python value is a tagged record: [tag |-> "null"],                 *)
(*    [tag |-> "str", v |-> s], [tag |-> "int", v |-> n],                  *)
(*    [tag |-> "list", v |-> <<...>>], [tag |-> "dict", v |-> d] where d   *)
(*    is a function from key names to values (an absent key is a key not   *)
(*    in DOMAIN d).                                                        *)
(*  - A call that raises returns [tag |-> "raise", v |-> <exception>].     *)
(***************************************************************************)
EXTENDS Integers, Sequences, FiniteSets, TLC

VARIABLES pc, args, ret, files, saved

vars == <<pc, args, ret, files, saved>>

(* The data files of the service (main.py, lines 53-54).  files maps a     *)
(* file to None while it does not exist and to its text otherwise; saved   *)
(* is the history of the cases handed to save_case, oldest first.          *)
CASES_FILE == "cases.jsonl"
FINE_TUNE_FILE == "fine_tune_dataset.jsonl"

(* line 52 creates the data directory only: no file exists at start *)
InitFiles ==
  /\ files = [f \in {CASES_FILE, FINE_TUNE_FILE} |-> [tag |-> "null"]]
  /\ saved = <<>>

----------------------------------------------------------------------------
(* Bounds of the explored inputs *)

MaxNeg == 1
MaxCount == 6
MaxArticles == 3
MaxAlts == 2
MaxCands == 2
MaxTitles == 4
MaxTerms == 2
MaxRecs == 2
MaxPoint == 4

----------------------------------------------------------------------------
(* Exact rationals *)

Abs(n) == IF n < 0 THEN -n ELSE n

RECURSIVE GCD(_, _)
GCD(a, b) == IF b = 0 THEN a ELSE GCD(b, a % b)

Frac(n, d) ==
  LET s == IF d < 0 THEN -1 ELSE 1
      g == GCD(Abs(n), Abs(d))
  IN  <<(s * n) \div g, (s * d) \div g>>

Int2R(n) == <<n, 1>>
RAdd(x, y) == Frac(x[1] * y[2] + y[1] * x[2], x[2] * y[2])
RSub(x, y) == Frac(x[1] * y[2] - y[1] * x[2], x[2] * y[2])
RMul(x, y) == Frac(x[1] * y[1], x[2] * y[2])
RDiv(x, y) == Frac(x[1] * y[2], x[2] * y[1])
RNeg(x) == <<-x[1], x[2]>>
RLe(x, y) == x[1] * y[2] <= y[1] * x[2]
RLt(x, y) == x[1] * y[2] < y[1] * x[2]
RMin(x, y) == IF RLe(x, y) THEN x ELSE y
RMax(x, y) == IF RLe(y, x) THEN x ELSE y

(* Python round(x): nearest integer, ties to even *)
RoundInt(x) ==
  LET q == x[1] \div x[2]
      r == x[1] % x[2]
  IN  IF 2 * r < x[2] THEN q
      ELSE IF 2 * r > x[2] THEN q + 1
      ELSE IF q % 2 = 0 THEN q ELSE q + 1

(* Python round(x, 2) *)
Round2(x) == Frac(RoundInt(RMul(x, <<100, 1>>)), 100)

----------------------------------------------------------------------------
(* Python values and strings *)

Null == [tag |-> "null"]
S(s) == [tag |-> "str", v |-> s]
I(n) == [tag |-> "int", v |-> n]
L(l) == [tag |-> "list", v |-> l]
D(d) == [tag |-> "dict", v |-> d]
F(x) == [tag |-> "float", v |-> x]
Raise(e) == [tag |-> "raise", v |-> e]

EmptyDict == [k \in {} |-> Null]

(* bool(v) *)
Truthy(v) ==
  CASE v.tag = "null" -> FALSE
    [] v.tag = "str" -> Len(v.v) > 0
    [] v.tag = "int" -> v.v # 0
    [] v.tag = "list" -> Len(v.v) > 0
    [] v.tag = "dict" -> DOMAIN v.v # {}

(* x or y *)
Or(x, y) == IF Truthy(x) THEN x ELSE y

(* d.get(k) and d.get(k, default) *)
Get(d, k) == IF k \in DOMAIN d THEN d[k] ELSE Null
GetDefault(d, k, dflt) == IF k \in DOMAIN d THEN d[k] ELSE dflt

(* d[k] = v *)
DictSet(d, k, val) == [x \in (DOMAIN d) \cup {k} |-> IF x = k THEN val ELSE d[x]]

(* str.lower() on ASCII *)
Lower(s) == [i \in 1..Len(s) |-> IF s[i] \in 65..90 THEN s[i] + 32 ELSE s[i]]

IsSpace(c) == c \in {9, 10, 11, 12, 13, 28, 29, 30, 31, 32}

RECURSIVE LStrip(_)
LStrip(s) == IF s # <<>> /\ IsSpace(Head(s)) THEN LStrip(Tail(s)) ELSE s

RECURSIVE RStrip(_)
RStrip(s) ==
  IF s # <<>> /\ IsSpace(s[Len(s)]) THEN RStrip(SubSeq(s, 1, Len(s) - 1)) ELSE s

(* str.strip() *)
Strip(s) == RStrip(LStrip(s))

(* sub in s *)
Contains(sub, s) ==
  \E i \in 1..(Len(s) - Len(sub) + 1) : SubSeq(s, i, i + Len(sub) - 1) = sub

(* a < b on str: lexicographic on code points *)
RECURSIVE StrLt(_, _)
StrLt(a, b) ==
  IF b = <<>> THEN FALSE
  ELSE IF a = <<>> THEN TRUE
  ELSE IF Head(a) # Head(b) THEN Head(a) < Head(b)
  ELSE StrLt(Tail(a), Tail(b))

RECURSIVE Digits(_)
Digits(n) == IF n < 10 THEN <<48 + n>> ELSE Digits(n \div 10) \o <<48 + (n % 10)>>

(* str(n) for an int *)
IntStr(n) == IF n < 0 THEN <<45>> \o Digits(-n) ELSE Digits(n)

(* the literals used as keys of the records *)
KeyOrder == <<"splint_name", "name", "rationale", "alternatives">>

KeyChars(k) ==
  CASE k = "splint_name" -> <<115, 112, 108, 105, 110, 116, 95, 110, 97, 109, 101>>
    [] k = "name" -> <<110, 97, 109, 101>>
    [] k = "rationale" -> <<114, 97, 116, 105, 111, 110, 97, 108, 101>>
    [] k = "alternatives" -> <<97, 108, 116, 101, 114, 110, 97, 116, 105, 118, 101, 115>>

RECURSIVE JoinComma(_)
JoinComma(parts) ==
  IF parts = <<>> THEN <<>>
  ELSE IF Len(parts) = 1 THEN parts[1]
  ELSE parts[1] \o <<44, 32>> \o JoinComma(Tail(parts))

(* repr(v); the keys of a dict are listed in KeyOrder, the order in which *)
(* the explored records are built                                          *)
RECURSIVE Repr(_)
Repr(v) ==
  CASE v.tag = "null" -> <<78, 111, 110, 101>>
    [] v.tag = "str" -> <<39>> \o v.v \o <<39>>
    [] v.tag = "int" -> IntStr(v.v)
    [] v.tag = "list" -> <<91>> \o JoinComma([i \in 1..Len(v.v) |-> Repr(v.v[i])]) \o <<93>>
    [] v.tag = "dict" ->
         LET ks == SelectSeq(KeyOrder, LAMBDA k : k \in DOMAIN v.v)
         IN  <<123>>
             \o JoinComma([i \in 1..Len(ks) |->
                   <<39>> \o KeyChars(ks[i]) \o <<39, 58, 32>> \o Repr(v.v[ks[i]])])
             \o <<125>>

(* str(v) *)
Str(v) == IF v.tag = "str" THEN v.v ELSE Repr(v)

----------------------------------------------------------------------------
(* Confidence: linguistic <-> numeric *)

High == <<104, 105, 103, 104>>
Medium == <<109, 101, 100, 105, 117, 109>>
Low == <<108, 111, 119>>

CONFIDENCE_TO_NUMERIC ==
  [k \in {High, Medium, Low} |->
     CASE k = High -> <<17, 20>>
       [] k = Medium -> <<1, 2>>
       [] k = Low -> <<1, 5>>]

NUMERIC_TO_CONFIDENCE == << <<(<<7, 10>>), High>>, <<(<<7, 20>>), Medium>>, <<(<<0, 1>>), Low>> >>

(* c is a str value or None *)
confidence_to_numeric(c) ==
  LET k == Lower(Or(c, S(Medium)).v)
  IN  IF k \in DOMAIN CONFIDENCE_TO_NUMERIC THEN CONFIDENCE_TO_NUMERIC[k] ELSE <<1, 2>>

RECURSIVE DefuzzifyFrom(_, _)
DefuzzifyFrom(x, i) ==
  IF i > Len(NUMERIC_TO_CONFIDENCE) THEN Low
  ELSE IF RLe(NUMERIC_TO_CONFIDENCE[i][1], x) THEN NUMERIC_TO_CONFIDENCE[i][2]
  ELSE DefuzzifyFrom(x, i + 1)

(* a threshold table whose first entry is 0.9 instead of 0.7 *)
defuzzify_confidence_high09(x) ==
  IF RLe(<<9, 10>>, x) THEN High ELSE IF RLe(<<7, 20>>, x) THEN Medium ELSE Low

defuzzify_confidence(x) == DefuzzifyFrom(x, 1)

(* the rising side divided by the whole base c - a *)
membership_triangular_base(x, a, b, c) ==
  IF RLe(x, a) \/ RLe(c, x) THEN <<0, 1>>
  ELSE IF RLe(x, b) THEN (IF a # b THEN RDiv(RSub(x, a), RSub(c, a)) ELSE <<1, 1>>)
  ELSE (IF b # c THEN RDiv(RSub(c, x), RSub(c, b)) ELSE <<1, 1>>)

membership_triangular(x, a, b, c) ==
  IF RLe(x, a) \/ RLe(c, x) THEN <<0, 1>>
  ELSE IF RLe(x, b) THEN (IF a # b THEN RDiv(RSub(x, a), RSub(b, a)) ELSE <<1, 1>>)
  ELSE (IF b # c THEN RDiv(RSub(c, x), RSub(c, b)) ELSE <<1, 1>>)

(* the term ramp subtracted instead of added *)
nih_evidence_strength_minus(n_articles, n_terms, n_splints) ==
  LET article_mu == membership_triangular(Int2R(n_articles), <<0, 1>>, <<3, 1>>, <<6, 1>>)
      term_mu == RMin(<<1, 1>>, Frac(n_terms + n_splints, 6))
  IN  RSub(RMul(<<3, 5>>, article_mu), RMul(<<2, 5>>, term_mu))

nih_evidence_strength(n_articles, n_terms, n_splints) ==
  LET article_mu == membership_triangular(Int2R(n_articles), <<0, 1>>, <<3, 1>>, <<6, 1>>)
      term_mu == RMin(<<1, 1>>, Frac(n_terms + n_splints, 6))
  IN  RAdd(RMul(<<3, 5>>, article_mu), RMul(<<2, 5>>, term_mu))

(* lines 61-64 of fuse_confidence: the fused numeric value before it is   *)
(* defuzzified                                                            *)
fused_numeric(clinical_confidence, nih_articles_count, nih_terms_count, nih_splints_count, w_clinical) ==
  LET c_num == confidence_to_numeric(clinical_confidence)
      nih_str == nih_evidence_strength(nih_articles_count, nih_terms_count, nih_splints_count)
      fused == RAdd(RMul(w_clinical, c_num), RMul(RSub(<<1, 1>>, w_clinical), nih_str))
  IN  RMax(<<0, 1>>, RMin(<<1, 1>>, fused))

fuse_confidence(clinical_confidence, nih_articles_count, nih_terms_count, nih_splints_count, w_clinical) ==
  defuzzify_confidence(
    fused_numeric(clinical_confidence, nih_articles_count, nih_terms_count,
                  nih_splints_count, w_clinical))

----------------------------------------------------------------------------
(* Calls of fuse_confidence *)

Counts == (-MaxNeg)..MaxCount

(* w_clinical: -0.5, 0, 0.125, 0.3, 0.7, 0.875, 1.0, 1.5 *)
Weights == {<<-1, 2>>, <<0, 1>>, <<1, 8>>, <<3, 10>>, <<7, 10>>, <<7, 8>>, <<1, 1>>, <<3, 2>>}

(* "high", "medium", "low", "HIGH", "Low", "" , "a" and None *)
ConfidenceInputs ==
  {S(High), S(Medium), S(Low), S(<<72, 73, 71, 72>>), S(<<76, 111, 119>>),
   S(<<>>), S(<<97>>), Null}

ConfArgs ==
  [op : {"fuse_confidence"}, clinical_confidence : ConfidenceInputs,
   nih_articles_count : Counts, nih_terms_count : Counts, nih_splints_count : Counts,
   w_clinical : Weights]

InitConf == pc = "call" /\ args \in ConfArgs /\ ret = Null /\ InitFiles

CallFuseConfidence ==
  /\ pc = "call"
  /\ args.op = "fuse_confidence"
  /\ ret' = S(fuse_confidence(args.clinical_confidence, args.nih_articles_count,
                              args.nih_terms_count, args.nih_splints_count,
                              args.w_clinical))
  /\ pc' = "done"
  /\ UNCHANGED <<args, files, saved>>

NextConf == CallFuseConfidence

SpecConf == InitConf /\ [][NextConf]_vars

(* low < medium < high *)
Rank(word) == IF word = High THEN 2 ELSE IF word = Medium THEN 1 ELSE 0

Max0(n) == IF n < 0 THEN 0 ELSE n

ConfDone == pc = "done" /\ args.op = "fuse_confidence"

(* C2: fuse_confidence is monotonic non-decreasing in article_count: with  *)
(* term_count and option_count >= 0 and clinical_weight < 1, a larger      *)
(* article count never returns a lower confidence word.                    *)
C2_MonotoneInArticles ==
  (ConfDone /\ RLt(args.w_clinical, <<1, 1>>)
     /\ args.nih_terms_count >= 0 /\ args.nih_splints_count >= 0)
  => \A n2 \in Counts :
       n2 >= args.nih_articles_count
       => Rank(fuse_confidence(args.clinical_confidence, n2, args.nih_terms_count,
                               args.nih_splints_count, args.w_clinical))
          >= Rank(ret.v)

(* C5: fuse_confidence treats negative counts as 0: the result equals the  *)
(* result obtained when every negative count is replaced by 0.             *)
C5_NegativeCountsAsZero ==
  ConfDone
  => ret.v = fuse_confidence(args.clinical_confidence, Max0(args.nih_articles_count),
                             Max0(args.nih_terms_count), Max0(args.nih_splints_count),
                             args.w_clinical)

(* C9: with clinical_weight 1.0 and zero evidence, fuse_confidence returns *)
(* the confidence word it was given, for each of high, medium and low.     *)
C9_WeightOneIsIdentity ==
  (ConfDone /\ args.clinical_confidence \in {S(High), S(Medium), S(Low)}
     /\ args.nih_articles_count = 0 /\ args.nih_terms_count = 0
     /\ args.nih_splints_count = 0 /\ args.w_clinical = <<1, 1>>)
  => ret = args.clinical_confidence

C9_Witness ==
  /\ ConfDone
  /\ args.clinical_confidence = S(High)
  /\ args.nih_articles_count = 0 /\ args.nih_terms_count = 0
  /\ args.nih_splints_count = 0 /\ args.w_clinical = <<1, 1>>
  /\ ret = S(High)

(* C10: fuse_confidence is monotonic non-decreasing in term_count: with    *)
(* article_count, option_count and both term counts >= 0 and               *)
(* clinical_weight < 1, a larger term count never returns a lower          *)
(* confidence word.                                                        *)
C10_MonotoneInTerms ==
  (ConfDone /\ RLt(args.w_clinical, <<1, 1>>)
     /\ args.nih_articles_count >= 0 /\ args.nih_splints_count >= 0
     /\ args.nih_terms_count >= 0)
  => \A t2 \in Counts :
       t2 >= args.nih_terms_count
       => Rank(fuse_confidence(args.clinical_confidence, args.nih_articles_count, t2,
                               args.nih_splints_count, args.w_clinical))
          >= Rank(ret.v)

(* a call whose word rises strictly when the term count grows *)
C10_Witness ==
  /\ ConfDone /\ RLt(args.w_clinical, <<1, 1>>)
  /\ args.nih_articles_count >= 0 /\ args.nih_splints_count >= 0
  /\ args.nih_terms_count >= 0
  /\ \E t2 \in Counts :
       /\ t2 > args.nih_terms_count
       /\ Rank(fuse_confidence(args.clinical_confidence, args.nih_articles_count, t2,
                               args.nih_splints_count, args.w_clinical))
          > Rank(ret.v)

----------------------------------------------------------------------------
(* Splint fusion *)

Clinical == <<99, 108, 105, 110, 105, 99, 97, 108>>
Nih == <<110, 105, 104>>

(* the triangle reaching 0 at 5 mentions instead of 4 *)
splint_membership_from_nih_upper5(splint_name, nih_articles) ==
  IF nih_articles = <<>> THEN <<0, 1>>
  ELSE LET key == Lower(splint_name)
           mentions == {i \in 1..Len(nih_articles) :
                          Contains(key, Lower(Or(Get(nih_articles[i].v, "title"), S(<<>>)).v))}
       IN  membership_triangular(Int2R(Cardinality(mentions)), <<0, 1>>, <<1, 1>>, <<5, 1>>)

(* splint_name is a str; nih_articles is a sequence of dict values whose  *)
(* title is a str, None or absent                                         *)
splint_membership_from_nih(splint_name, nih_articles) ==
  IF nih_articles = <<>> THEN <<0, 1>>
  ELSE LET key == Lower(splint_name)
           mentions == {i \in 1..Len(nih_articles) :
                          Contains(key, Lower(Or(Get(nih_articles[i].v, "title"), S(<<>>)).v))}
       IN  membership_triangular(Int2R(Cardinality(mentions)), <<0, 1>>, <<1, 1>>, <<4, 1>>)

(* lines 99-102: the name of one entry of the alternatives list *)
AltName(alt) ==
  IF alt.tag = "dict"
  THEN Or(Or(Get(alt.v, "splint_name"), Get(alt.v, "name")), S(Str(alt)))
  ELSE S(Str(alt))

(* the key of the seen set compared literally, without lower() *)
SeenKey_literal(name) == name

(* lines 95, 103-104, 112-114: the key a name has in the seen set *)
SeenKey(name) == Lower(name)

(* lines 98-109: the loop over the clinical alternatives; st is            *)
(* [seen, out, exc] and exc is set by the first name that has no lower()   *)
RECURSIVE ClinicalLoop(_, _)
ClinicalLoop(alternatives, st) ==
  IF alternatives = <<>> \/ st.exc THEN st
  ELSE LET name == AltName(Head(alternatives))
       IN  IF name.tag # "str" THEN [st EXCEPT !.exc = TRUE]
           ELSE IF SeenKey(name.v) \notin st.seen
           THEN ClinicalLoop(Tail(alternatives),
                  [st EXCEPT !.seen = @ \cup {SeenKey(name.v)},
                             !.out = Append(@, D([splint_name |-> name,
                                                   source |-> S(Clinical),
                                                   membership |-> F(<<1, 1>>)]))])
           ELSE ClinicalLoop(Tail(alternatives), st)

(* lines 111-120: the loop over the NIH candidates *)
RECURSIVE NihLoop(_, _, _)
NihLoop(additional, nih_articles, st) ==
  IF additional = <<>> \/ st.exc THEN st
  ELSE LET s == Head(additional)
       IN  IF s.tag # "str" THEN [st EXCEPT !.exc = TRUE]
           ELSE IF SeenKey(s.v) \in st.seen
           THEN NihLoop(Tail(additional), nih_articles, st)
           ELSE LET mu == splint_membership_from_nih(s.v, nih_articles)
                IN  NihLoop(Tail(additional), nih_articles,
                      [st EXCEPT !.seen = @ \cup {SeenKey(s.v)},
                                 !.out = Append(@, D([splint_name |-> s,
                                                       source |-> S(Nih),
                                                       membership |-> F(Round2(mu))]))])

(* ascending instead of descending membership *)
SplintKeyLt_ascending(x, y) ==
  \/ RLt(x.v.membership.v, y.v.membership.v)
  \/ /\ x.v.membership.v = y.v.membership.v
     /\ StrLt(x.v.splint_name.v, y.v.splint_name.v)

(* line 123: the sort key (-membership, splint_name) of x is below that of y *)
SplintKeyLt(x, y) ==
  \/ RLt(RNeg(x.v.membership.v), RNeg(y.v.membership.v))
  \/ /\ x.v.membership.v = y.v.membership.v
     /\ StrLt(x.v.splint_name.v, y.v.splint_name.v)

(* list.sort is stable: an entry goes before the first one whose key is   *)
(* strictly above its own                                                 *)
RECURSIVE InsertSplint(_, _)
InsertSplint(sorted, x) ==
  IF sorted = <<>> THEN <<x>>
  ELSE IF SplintKeyLt(x, Head(sorted)) THEN <<x>> \o sorted
  ELSE <<Head(sorted)>> \o InsertSplint(Tail(sorted), x)

RECURSIVE SortSplints(_, _)
SortSplints(list, sorted) ==
  IF list = <<>> THEN sorted ELSE SortSplints(Tail(list), InsertSplint(sorted, Head(list)))

(* primary_splint is a dict; additional_splints_from_nih and nih_articles *)
(* are list values or None.  Returns the pair or the raised exception.    *)
fuse_splints(primary_splint, additional_splints_from_nih, nih_articles) ==
  LET alternatives == Or(Get(primary_splint, "alternatives"), L(<<>>)).v
      name0 == GetDefault(primary_splint, "splint_name", S(<<>>))
  IN  IF name0.tag # "str" THEN Raise("AttributeError")
      ELSE LET st0 == [seen |-> {SeenKey(name0.v)}, out |-> <<>>, exc |-> FALSE]
               st1 == ClinicalLoop(alternatives, st0)
               st2 == NihLoop(Or(additional_splints_from_nih, L(<<>>)).v,
                              Or(nih_articles, L(<<>>)).v, st1)
           IN  IF st2.exc THEN Raise("AttributeError")
               ELSE LET fused_alt_list == L(SortSplints(st2.out, <<>>))
                    IN  [tag |-> "tuple",
                         v |-> <<D(DictSet(primary_splint, "alternatives_with_scores",
                                           fused_alt_list)),
                                 fused_alt_list>>]

----------------------------------------------------------------------------
(* Calls of fuse_splints *)

SeqsUpTo(set, n) == UNION {[1..k -> set] : k \in 0..n}

(* "a" *)
PrimaryNames == {S(<<97>>)}

(* "A", "b", 1, {"splint_name": "b"}, {"splint_name": None, "name": "C"}, {} *)
AltEntries ==
  {S(<<65>>), S(<<98>>), I(1),
   D([splint_name |-> S(<<98>>)]),
   D([splint_name |-> Null, name |-> S(<<67>>)]),
   D(EmptyDict)}

(* "A", "B", "ab" and 1 *)
CandEntries == {S(<<65>>), S(<<66>>), S(<<97, 98>>), I(1)}

(* the records a primary splint can be: the name a str, None or absent,   *)
(* the alternatives a list, None or absent                                *)
PrimarySplints ==
  LET names == PrimaryNames \cup {Null, I(0)}
      alts == {L(l) : l \in SeqsUpTo(AltEntries, MaxAlts)} \cup {Null, I(0)}
  IN  {[k \in {"rationale"} \cup (IF n = I(0) THEN {} ELSE {"splint_name"})
                            \cup (IF a = I(0) THEN {} ELSE {"alternatives"}) |->
          CASE k = "splint_name" -> n
            [] k = "alternatives" -> a
            [] k = "rationale" -> S(<<>>)] : n \in names, a \in alts}

(* n articles, the first m titled "A b", the next k titled "c AB", the    *)
(* rest without a title                                                   *)
ArticleLists(max) ==
  {[i \in 1..n |->
      D(IF i <= m THEN [pmid |-> I(i), title |-> S(<<65, 32, 98>>)]
        ELSE IF i <= m + k THEN [pmid |-> I(i), title |-> S(<<99, 32, 65, 66>>)]
        ELSE [pmid |-> I(i), title |-> Null])] :
     <<n, m, k>> \in {t \in (0..max) \X (0..max) \X (0..1) : t[2] + t[3] <= t[1]}}

SplintArgs ==
  [op : {"fuse_splints"},
   primary_splint : PrimarySplints,
   additional_splints_from_nih : {L(l) : l \in SeqsUpTo(CandEntries, MaxCands)} \cup {Null},
   nih_articles : {L(l) : l \in ArticleLists(MaxTitles)} \cup {Null}]

InitSplints == pc = "call" /\ args \in SplintArgs /\ ret = Null /\ InitFiles

CallFuseSplints ==
  /\ pc = "call"
  /\ args.op = "fuse_splints"
  /\ ret' = fuse_splints(args.primary_splint, args.additional_splints_from_nih,
                         args.nih_articles)
  /\ pc' = "done"
  /\ UNCHANGED <<args, files, saved>>

NextSplints == CallFuseSplints

SpecSplints == InitSplints /\ [][NextSplints]_vars

SplintsReturned == pc = "done" /\ args.op = "fuse_splints" /\ ret.tag = "tuple"

RankedName(e) == e.v.splint_name.v
RankedMembership(e) == e.v.membership.v

(* C6: option dedup in fuse_splints: no two ranked entries have the same   *)
(* lowercased name, none has the primary's lowercased name, and no entry   *)
(* that comes from the NIH candidates has the lowercased name of a         *)
(* clinical alternative (clinical first, first occurrence wins).           *)
C6_RankedOptionsDeduplicated ==
  SplintsReturned
  => LET out == ret.v[2].v
         primary == Lower(GetDefault(args.primary_splint, "splint_name", S(<<>>)).v)
         alts == Or(Get(args.primary_splint, "alternatives"), L(<<>>)).v
     IN  /\ \A i, j \in 1..Len(out) :
              i # j => Lower(RankedName(out[i])) # Lower(RankedName(out[j]))
         /\ \A i \in 1..Len(out) : Lower(RankedName(out[i])) # primary
         /\ \A i \in 1..Len(out) :
              out[i].v.source = S(Nih)
              => \A k \in 1..Len(alts) :
                   Lower(AltName(alts[k]).v) # Lower(RankedName(out[i]))

(* a returned call in which a candidate differs from the primary name or   *)
(* from a clinical alternative only by case, among other entries           *)
C6_Witness ==
  /\ SplintsReturned
  /\ Len(ret.v[2].v) >= 2
  /\ LET cands == Or(args.additional_splints_from_nih, L(<<>>)).v
         primary == GetDefault(args.primary_splint, "splint_name", S(<<>>)).v
         alts == Or(Get(args.primary_splint, "alternatives"), L(<<>>)).v
     IN  /\ \E c \in 1..Len(cands) :
              cands[c].v # primary /\ Lower(cands[c].v) = Lower(primary)
         /\ \E c \in 1..Len(cands), k \in 1..Len(alts) :
              /\ cands[c].v # AltName(alts[k]).v
              /\ Lower(cands[c].v) = Lower(AltName(alts[k]).v)

(* C7: ranked-option ordering in fuse_splints: of two entries with         *)
(* distinct membership the higher one comes first, of two entries with     *)
(* equal membership the one with the smaller literal name comes first.     *)
C7_RankedOptionsOrdered ==
  SplintsReturned
  => LET out == ret.v[2].v
     IN  \A i, j \in 1..Len(out) :
           i < j
           => /\ RankedMembership(out[i]) # RankedMembership(out[j])
                 => RLt(RankedMembership(out[j]), RankedMembership(out[i]))
              /\ RankedMembership(out[i]) = RankedMembership(out[j])
                 => StrLt(RankedName(out[i]), RankedName(out[j]))

(* a returned list of three or more entries with a tie and a strict        *)
(* difference of membership                                                *)
C7_Witness ==
  /\ SplintsReturned
  /\ LET out == ret.v[2].v
     IN  /\ Len(out) >= 3
         /\ \E i, j \in 1..Len(out) :
              i < j /\ RankedMembership(out[i]) = RankedMembership(out[j])
         /\ \E i, j \in 1..Len(out) :
              i < j /\ RLt(RankedMembership(out[j]), RankedMembership(out[i]))
                    /\ RLt(<<0, 1>>, RankedMembership(out[j]))

----------------------------------------------------------------------------
(* Diagnosis terms *)

(* an append that skips a term the list already holds *)
AppendTerm_unseen(terms_out, entry) ==
  IF \E i \in 1..Len(terms_out) : terms_out[i].v.term = entry.v.term
  THEN terms_out
  ELSE Append(terms_out, entry)

(* lines 143, 153: terms_out.append({...}) *)
AppendTerm(terms_out, entry) == Append(terms_out, entry)

(* lines 149-157: the loop over the NIH terms *)
RECURSIVE NihTermsLoop(_, _, _)
NihTermsLoop(terms, w_clinical, terms_out) ==
  IF terms = <<>> THEN terms_out
  ELSE LET t == Head(terms)
       IN  IF ~Truthy(t) \/ Strip(Str(t)) = <<>>
           THEN NihTermsLoop(Tail(terms), w_clinical, terms_out)
           ELSE NihTermsLoop(Tail(terms), w_clinical,
                  AppendTerm(terms_out,
                             D([term |-> S(Strip(Str(t))),
                                source |-> S(Nih),
                                weight |-> F(Round2(RSub(<<1, 1>>, w_clinical)))])))

(* suggested_diagnosis is a str or None, the terms a list value or None *)
fuse_diagnosis_terms(suggested_diagnosis, suggested_diagnosis_terms_from_nih, w_clinical) ==
  LET terms0 ==
        IF Truthy(suggested_diagnosis) /\ Strip(suggested_diagnosis.v) # <<>>
        THEN AppendTerm(<<>>, D([term |-> S(Strip(suggested_diagnosis.v)),
                                 source |-> S(Clinical),
                                 weight |-> F(Round2(w_clinical))]))
        ELSE <<>>
      terms_out == NihTermsLoop(Or(suggested_diagnosis_terms_from_nih, L(<<>>)).v,
                                w_clinical, terms0)
  IN  [tag |-> "tuple", v |-> <<suggested_diagnosis, L(terms_out)>>]

----------------------------------------------------------------------------
(* Recommendations *)

(* "Consider literature review (PubMed results attached)." *)
LiteratureReview ==
  <<67, 111, 110, 115, 105, 100, 101, 114, 32, 108, 105, 116, 101, 114,
     97, 116, 117, 114, 101, 32, 114, 101, 118, 105, 101, 119, 32, 40,
     80, 117, 98, 77, 101, 100, 32, 114, 101, 115, 117, 108, 116, 115,
     32, 97, 116, 116, 97, 99, 104, 101, 100, 41, 46>>

(* lines 172-178: the loop over the clinical recommendations *)
RECURSIVE ClinicalRecsLoop(_, _)
ClinicalRecsLoop(recs, out) ==
  IF recs = <<>> THEN out
  ELSE LET r == Head(recs)
       IN  IF Truthy(r) /\ Strip(Str(r)) # <<>>
           THEN ClinicalRecsLoop(Tail(recs),
                  Append(out, D([recommendation |-> S(Strip(Str(r))),
                                 source |-> S(Clinical),
                                 priority |-> F(<<1, 1>>)])))
           ELSE ClinicalRecsLoop(Tail(recs), out)

(* one literature-review entry for each article *)
NihRecommendation_perArticle(nih_articles, nih_priority_bonus) ==
  [i \in 1..Len(Or(nih_articles, L(<<>>)).v) |->
     D([recommendation |-> S(LiteratureReview),
        source |-> S(Nih),
        priority |-> F(Round2(nih_priority_bonus))])]

(* lines 180-185: the entries appended for the NIH articles *)
NihRecommendation(nih_articles, nih_priority_bonus) ==
  IF Truthy(nih_articles)
  THEN <<D([recommendation |-> S(LiteratureReview),
            source |-> S(Nih),
            priority |-> F(Round2(nih_priority_bonus))])>>
  ELSE <<>>

(* line 187: the sort key (-priority, recommendation) of x is below that of y *)
RecKeyLt(x, y) ==
  \/ RLt(RNeg(x.v.priority.v), RNeg(y.v.priority.v))
  \/ /\ x.v.priority.v = y.v.priority.v
     /\ StrLt(x.v.recommendation.v, y.v.recommendation.v)

RECURSIVE InsertRec(_, _)
InsertRec(sorted, x) ==
  IF sorted = <<>> THEN <<x>>
  ELSE IF RecKeyLt(x, Head(sorted)) THEN <<x>> \o sorted
  ELSE <<Head(sorted)>> \o InsertRec(Tail(sorted), x)

RECURSIVE SortRecs(_, _)
SortRecs(list, sorted) ==
  IF list = <<>> THEN sorted ELSE SortRecs(Tail(list), InsertRec(sorted, Head(list)))

(* other_recommendations and nih_articles are list values or None *)
fuse_recommendations(other_recommendations, nih_articles, nih_priority_bonus) ==
  LET out == ClinicalRecsLoop(Or(other_recommendations, L(<<>>)).v, <<>>)
             \o NihRecommendation(nih_articles, nih_priority_bonus)
  IN  L(SortRecs(out, <<>>))

----------------------------------------------------------------------------
(* Calls of fuse_diagnosis_terms and of fuse_recommendations *)

(* None, "", " ", " a ", "b" *)
DiagnosisInputs == {Null, S(<<>>), S(<<32>>), S(<<32, 97, 32>>), S(<<98>>)}

(* "a", " ", " b", "", None, 0, 1 *)
TermEntries == {S(<<97>>), S(<<32>>), S(<<32, 98>>), S(<<>>), Null, I(0), I(1)}

(* the weights of the confidence calls and the default 0.6 *)
TermWeights == Weights \cup {<<3, 5>>}

TermArgs ==
  [op : {"fuse_diagnosis_terms"},
   suggested_diagnosis : DiagnosisInputs,
   suggested_diagnosis_terms_from_nih : {L(l) : l \in SeqsUpTo(TermEntries, MaxTerms)} \cup {Null},
   w_clinical : TermWeights]

InitTerms == pc = "call" /\ args \in TermArgs /\ ret = Null /\ InitFiles

CallFuseDiagnosisTerms ==
  /\ pc = "call"
  /\ args.op = "fuse_diagnosis_terms"
  /\ ret' = fuse_diagnosis_terms(args.suggested_diagnosis,
                                 args.suggested_diagnosis_terms_from_nih, args.w_clinical)
  /\ pc' = "done"
  /\ UNCHANGED <<args, files, saved>>

NextTerms == CallFuseDiagnosisTerms

SpecTerms == InitTerms /\ [][NextTerms]_vars

(* "Order X-ray", "a", " a ", " ", "", None, 0, 1 *)
RecEntries ==
  {S(<<79, 114, 100, 101, 114, 32, 88, 45, 114, 97, 121>>), S(<<97>>), S(<<32, 97, 32>>),
   S(<<32>>), S(<<>>), Null, I(0), I(1)}

RecArgs ==
  [op : {"fuse_recommendations"},
   other_recommendations : {L(l) : l \in SeqsUpTo(RecEntries, MaxRecs)} \cup {Null},
   nih_articles : {L(l) : l \in ArticleLists(MaxArticles)} \cup {Null},
   nih_priority_bonus : Weights]

InitRecs == pc = "call" /\ args \in RecArgs /\ ret = Null /\ InitFiles

CallFuseRecommendations ==
  /\ pc = "call"
  /\ args.op = "fuse_recommendations"
  /\ ret' = fuse_recommendations(args.other_recommendations, args.nih_articles,
                                 args.nih_priority_bonus)
  /\ pc' = "done"
  /\ UNCHANGED <<args, files, saved>>

NextRecs == CallFuseRecommendations

SpecRecs == InitRecs /\ [][NextRecs]_vars

RecsDone == pc = "done" /\ args.op = "fuse_recommendations"

(* C8: fuse_recommendations adds exactly one NIH-sourced literature-review *)
(* entry when the article list is non-empty, whatever its length, and none *)
(* when it is empty or absent; every other entry is clinical-sourced with  *)
(* priority 1.0 and is the trimmed text of a non-blank clinical action.    *)
C8_OneLiteratureReviewEntry ==
  RecsDone
  => LET out == ret.v
         others == Or(args.other_recommendations, L(<<>>)).v
         nihEntries == {i \in 1..Len(out) : out[i].v.source = S(Nih)}
     IN  /\ Cardinality(nihEntries) =
              (IF args.nih_articles.tag = "list" /\ Len(args.nih_articles.v) > 0
               THEN 1 ELSE 0)
         /\ \A i \in nihEntries : out[i].v.recommendation = S(LiteratureReview)
         /\ \A i \in (1..Len(out)) \ nihEntries :
              /\ out[i].v.source = S(Clinical)
              /\ out[i].v.priority = F(<<1, 1>>)
              /\ out[i].v.recommendation.v # <<>>
              /\ \E k \in 1..Len(others) :
                   /\ others[k].tag \in {"str", "int"}
                   /\ out[i].v.recommendation.v = Strip(Str(others[k]))

(* a call with several articles and a clinical action next to a blank one *)
C8_Witness ==
  /\ RecsDone
  /\ args.nih_articles.tag = "list" /\ Len(args.nih_articles.v) >= 2
  /\ args.other_recommendations.tag = "list" /\ Len(args.other_recommendations.v) = 2
  /\ Len(ret.v) = 2
  /\ \E i \in 1..2 : ret.v[i].v.source = S(Nih)

----------------------------------------------------------------------------
(* Top-level aggregation *)

(* the second key tried before the first *)
FirstAlias_second(d, k1, k2) == Or(Or(Get(d, k2), Get(d, k1)), L(<<>>))

(* lines 211-212: d.get(k1) or d.get(k2) or [] *)
FirstAlias(d, k1, k2) == Or(Or(Get(d, k1), Get(d, k2)), L(<<>>))

(* the top-level weight handed on to the term fusion *)
TermsClinicalWeight_toplevel(w_clinical) == w_clinical

(* line 240: the term fusion is called with w_clinical=0.6 whatever the   *)
(* w_clinical of aggregate_two_agents is                                  *)
TermsClinicalWeight(w_clinical) == <<3, 5>>

(* agent1_result and agent2_result are dicts; returns the fused dict or    *)
(* the exception raised by fuse_splints                                    *)
aggregate_two_agents(agent1_result, agent2_result, w_clinical) ==
  LET nih_articles == Or(Get(agent2_result, "nih_articles"), L(<<>>))
      additional_splints ==
        FirstAlias(agent2_result, "additional_splints_from_nih", "additional_splints")
      nih_terms ==
        FirstAlias(agent2_result, "suggested_diagnosis_terms_from_nih",
                   "suggested_diagnosis_terms")
      confidence ==
        S(fuse_confidence(Or(Get(agent1_result, "confidence"), S(Medium)),
                          Len(nih_articles.v), Len(nih_terms.v), Len(additional_splints.v),
                          w_clinical))
      fused_confidence_numeric ==
        I(RoundInt(RMul(confidence_to_numeric(confidence), <<100, 1>>)))
      rec == Or(Get(agent1_result, "recommended_splint"), D(EmptyDict))
      primary ==
        IF rec.tag = "dict" THEN rec.v
        ELSE [splint_name |-> S(Str(rec)), rationale |-> S(<<>>), alternatives |-> L(<<>>)]
      splints == fuse_splints(primary, additional_splints, nih_articles)
      suggested == Get(agent1_result, "suggested_diagnosis")
      agg_terms == fuse_diagnosis_terms(suggested, nih_terms, TermsClinicalWeight(w_clinical)).v[2]
      other == Or(Get(agent1_result, "other_recommendations"), L(<<>>))
      recs == fuse_recommendations(other, nih_articles, <<3, 10>>)
      f1 == DictSet(agent1_result, "confidence", confidence)
      f2 == DictSet(f1, "fused_confidence_numeric", fused_confidence_numeric)
      f3 == DictSet(f2, "recommended_splint", splints.v[1])
      f4 == DictSet(f3, "alternatives_with_scores", splints.v[2])
      f5 == DictSet(f4, "aggregated_diagnosis_terms", agg_terms)
      f6 == DictSet(f5, "fused_recommendations", recs)
      f7 == DictSet(f6, "nih_articles", Get(agent2_result, "nih_articles"))
      f8 == DictSet(f7, "additional_splints_from_nih", additional_splints)
      f9 == DictSet(f8, "suggested_diagnosis_terms_from_nih", nih_terms)
  IN  IF splints.tag = "raise" THEN splints ELSE D(f9)

----------------------------------------------------------------------------
(* The dicts of a call of aggregate_two_agents as objects.  A heap maps an *)
(* object name to the contents of a dict; a dict that holds another object *)
(* holds a reference to it.  The lists and sets the call changes in place  *)
(* (seen, fused_alt_list, terms_out, out) are created by the call itself   *)
(* (lines 95-96, 140, 171) and are kept as values.                         *)

Ref(a) == [tag |-> "ref", v |-> a]

Deref(h, val) == IF val.tag = "ref" THEN D(h[val.v]) ELSE val

(* the value of the dict at addr, with the dicts it refers to *)
ObjectValue(h, addr) == [k \in DOMAIN h[addr] |-> Deref(h, h[addr][k])]

HeapNew(h, addr, contents) ==
  [o \in (DOMAIN h) \cup {addr} |-> IF o = addr THEN contents ELSE h[o]]

(* obj[k] = val *)
HeapSetItem(h, addr, k, val) == [h EXCEPT ![addr] = DictSet(@, k, val)]

RecIsDict(agent1_result) ==
  /\ "recommended_splint" \in DOMAIN agent1_result
  /\ agent1_result["recommended_splint"].tag = "dict"

(* the objects the caller hands over: the two records and the dict under  *)
(* recommended_splint                                                     *)
HeapOf(agent1_result, agent2_result) ==
  [o \in {"agent1_result", "agent2_result"}
         \cup (IF RecIsDict(agent1_result) THEN {"rec"} ELSE {}) |->
     CASE o = "agent1_result" ->
            IF RecIsDict(agent1_result)
            THEN [agent1_result EXCEPT !["recommended_splint"] = Ref("rec")]
            ELSE agent1_result
       [] o = "agent2_result" -> agent2_result
       [] o = "rec" -> agent1_result["recommended_splint"].v]

(* the name bound to the source object itself, no copy made *)
DictCopy_alias(h, src, new) == [heap |-> h, addr |-> src]

(* lines 91 and 214: dict(src) is a new object with the items of src *)
DictCopy(h, src, new) == [heap |-> HeapNew(h, new, h[src]), addr |-> new]

(* The heap after the call: every statement of aggregate_two_agents and   *)
(* of fuse_splints that creates or writes a dict, in the order of the      *)
(* source.                                                                 *)

(* lines 217-226: fused["confidence"] and fused["fused_confidence_numeric"] *)
HeapConfidence(fused, confidence) ==
  HeapSetItem(HeapSetItem(fused.heap, fused.addr, "confidence", confidence),
              fused.addr, "fused_confidence_numeric",
              I(RoundInt(RMul(confidence_to_numeric(confidence), <<100, 1>>))))

(* lines 229-233: the primary option is rec itself, or a new dict *)
HeapPrimary(h, agent1_result, rec) ==
  IF RecIsDict(agent1_result) /\ Truthy(agent1_result["recommended_splint"])
  THEN [heap |-> h, addr |-> "rec"]
  ELSE [heap |-> HeapNew(h, "primary",
                         IF rec.tag = "dict" THEN rec.v
                         ELSE [splint_name |-> S(Str(rec)), rationale |-> S(<<>>),
                               alternatives |-> L(<<>>)]),
        addr |-> "primary"]

(* fuse_splints, line 125: fused_primary["alternatives_with_scores"] *)
HeapFuseSplints(fused_primary, splints) ==
  IF splints.tag = "raise" THEN fused_primary.heap
  ELSE HeapSetItem(fused_primary.heap, fused_primary.addr,
                   "alternatives_with_scores", splints.v[2])

(* lines 235-250: the fields written to fused after fuse_splints returned; *)
(* nothing more is written when it raised                                  *)
HeapFusedFields(h4, fused, fused_primary, splints, agg_terms, recs, nih_articles, additional_splints, nih_terms) ==
  IF splints.tag = "raise" THEN h4
  ELSE HeapSetItem(
         HeapSetItem(
           HeapSetItem(
             HeapSetItem(
               HeapSetItem(
                 HeapSetItem(
                   HeapSetItem(h4, fused, "recommended_splint", Ref(fused_primary)),
                   fused, "alternatives_with_scores", splints.v[2]),
                 fused, "aggregated_diagnosis_terms", agg_terms),
               fused, "fused_recommendations", recs),
             fused, "nih_articles", nih_articles),
           fused, "additional_splints_from_nih", additional_splints),
         fused, "suggested_diagnosis_terms_from_nih", nih_terms)

(* the call once fuse_splints has run: fused_primary is the copy of line  *)
(* 91, splints what fuse_splints returns or raises                         *)
HeapFromSplints(fused_primary, splints, fused, agent1_result, agent2_result, w_clinical, nih_articles, additional_splints, nih_terms) ==
  HeapFusedFields(
    HeapFuseSplints(fused_primary, splints), fused, fused_primary.addr, splints,
    fuse_diagnosis_terms(Get(agent1_result, "suggested_diagnosis"), nih_terms,
                         TermsClinicalWeight(w_clinical)).v[2],
    fuse_recommendations(Or(Get(agent1_result, "other_recommendations"), L(<<>>)),
                         nih_articles, <<3, 10>>),
    Get(agent2_result, "nih_articles"), additional_splints, nih_terms)

(* fuse_splints (line 91 on) and the rest of the call, the primary option  *)
(* being the object primary.addr of the heap primary.heap                  *)
HeapFromPrimary(primary, fused, agent1_result, agent2_result, w_clinical, nih_articles, additional_splints, nih_terms) ==
  HeapFromSplints(DictCopy(primary.heap, primary.addr, "fused_primary"),
                  fuse_splints(ObjectValue(primary.heap, primary.addr),
                               additional_splints, nih_articles),
                  fused, agent1_result, agent2_result, w_clinical,
                  nih_articles, additional_splints, nih_terms)

(* the call once the lists of the evidence record are read (lines 210-212) *)
HeapFromLists(fused, agent1_result, agent2_result, w_clinical, nih_articles, additional_splints, nih_terms) ==
  HeapFromPrimary(
    HeapPrimary(
      HeapConfidence(fused,
        S(fuse_confidence(Or(Get(agent1_result, "confidence"), S(Medium)),
                          Len(nih_articles.v), Len(nih_terms.v), Len(additional_splints.v),
                          w_clinical))),
      agent1_result, Or(Get(agent1_result, "recommended_splint"), D(EmptyDict))),
    fused.addr, agent1_result, agent2_result, w_clinical,
    nih_articles, additional_splints, nih_terms)

aggregate_two_agents_heap(agent1_result, agent2_result, w_clinical) ==
  HeapFromLists(
    DictCopy(HeapOf(agent1_result, agent2_result), "agent1_result", "fused"),
    agent1_result, agent2_result, w_clinical,
    Or(Get(agent2_result, "nih_articles"), L(<<>>)),
    FirstAlias(agent2_result, "additional_splints_from_nih", "additional_splints"),
    FirstAlias(agent2_result, "suggested_diagnosis_terms_from_nih",
               "suggested_diagnosis_terms"))

(* the caller's two records as they are in the heap h *)
InputsIn(h, a) ==
  [a EXCEPT !.agent1_result = ObjectValue(h, "agent1_result"),
            !.agent2_result = ObjectValue(h, "agent2_result")]

----------------------------------------------------------------------------
(* Calls of aggregate_two_agents *)

(* a record with the keys whose value is not the marker Absent *)
Absent == [tag |-> "absent"]
MkDict(r) == [k \in {x \in DOMAIN r : r[x] # Absent} |-> r[k]]

(* the primary splint: absent, None, the str "B", or a record whose name  *)
(* is "a", None or absent and whose alternatives are ["A", "b"], [1] or   *)
(* absent                                                                 *)
AggPrimaries ==
  {Absent, Null, S(<<66>>)}
  \cup {D(MkDict([splint_name |-> n, rationale |-> S(<<>>), alternatives |-> a])) :
          n \in {S(<<97>>), Null, Absent},
          a \in {L(<<S(<<65>>), S(<<98>>)>>), L(<<I(1)>>), Absent}}

Agent1Results ==
  {MkDict([diagnosis_summary |-> S(<<97>>), confidence |-> c, recommended_splint |-> p,
           suggested_diagnosis |-> d, other_recommendations |-> o]) :
     c \in {Absent, S(High), S(Medium), S(Low)},
     p \in AggPrimaries,
     d \in {Absent, S(<<32, 97, 32>>)},
     o \in {Absent, L(<<S(<<79, 114, 100, 101, 114, 32, 88, 45, 114, 97, 121>>)>>)}}

(* n articles titled "A b" *)
AggArticleLists ==
  {L([i \in 1..n |-> D([pmid |-> I(i), title |-> S(<<65, 32, 98>>)])]) : n \in 0..MaxArticles}

Agent2Results ==
  {MkDict([nih_articles |-> a, additional_splints_from_nih |-> s1, additional_splints |-> s2,
           suggested_diagnosis_terms_from_nih |-> t1, suggested_diagnosis_terms |-> t2]) :
     a \in AggArticleLists \cup {Absent},
     s1 \in {Absent, L(<<S(<<65>>)>>), L(<<I(1)>>)},
     s2 \in {Absent, L(<<S(<<97, 98>>)>>)},
     t1 \in {Absent, L(<<>>), L(<<S(<<97>>)>>)},
     t2 \in {Absent, L(<<S(<<98>>), S(<<32>>)>>)}}

(* 0.7, 1.0 *)
AggWeights == {<<7, 10>>, <<1, 1>>}

AggArgs ==
  [op : {"aggregate_two_agents"}, agent1_result : Agent1Results,
   agent2_result : Agent2Results, w_clinical : AggWeights]

InitAgg == pc = "call" /\ args \in AggArgs /\ ret = Null /\ InitFiles

CallAggregateTwoAgents ==
  /\ pc \in {"call", "done"}
  /\ args.op = "aggregate_two_agents"
  /\ ret' = aggregate_two_agents(args.agent1_result, args.agent2_result, args.w_clinical)
  /\ pc' = "done"
  /\ args' = InputsIn(aggregate_two_agents_heap(args.agent1_result, args.agent2_result,
                                                args.w_clinical), args)
  /\ UNCHANGED <<files, saved>>

NextAgg == CallAggregateTwoAgents

SpecAgg == InitAgg /\ [][NextAgg]_vars

AggDone == pc = "done" /\ args.op = "aggregate_two_agents"

(* the counts the call hands to fuse_confidence *)
AggArticleCount == Len(Or(Get(args.agent2_result, "nih_articles"), L(<<>>)).v)
AggSplintCount ==
  Len(Or(Or(Get(args.agent2_result, "additional_splints_from_nih"),
            Get(args.agent2_result, "additional_splints")), L(<<>>)).v)
AggTermCount ==
  Len(Or(Or(Get(args.agent2_result, "suggested_diagnosis_terms_from_nih"),
            Get(args.agent2_result, "suggested_diagnosis_terms")), L(<<>>)).v)

(* C1: the fused record's fused_confidence_numeric equals                  *)
(* round(100 x fused_numeric), fused_numeric being the clamped weighted    *)
(* sum that is defuzzified into the confidence word; for confidence        *)
(* "medium", 3 articles, 1 candidate option, 1 candidate label and weight  *)
(* 0.7 the word is "medium" and the number is 57.                          *)
C1_NumericIsFusedNumeric ==
  (AggDone /\ ret.tag = "dict")
  => LET fused == fused_numeric(Or(Get(args.agent1_result, "confidence"), S(Medium)),
                                AggArticleCount, AggTermCount, AggSplintCount,
                                args.w_clinical)
     IN  /\ ret.v["confidence"] = S(defuzzify_confidence(fused))
         /\ ret.v["fused_confidence_numeric"] = I(RoundInt(RMul(fused, <<100, 1>>)))
         /\ (/\ Get(args.agent1_result, "confidence") = S(Medium)
             /\ AggArticleCount = 3 /\ AggSplintCount = 1 /\ AggTermCount = 1
             /\ args.w_clinical = <<7, 10>>)
            => /\ ret.v["confidence"] = S(Medium)
               /\ ret.v["fused_confidence_numeric"] = I(57)

(* C4: aggregate_two_agents has no error outcome: with any field absent or *)
(* null, a primary record whose name is null, and non-string entries in    *)
(* the alternatives or in the candidate list, the call returns a fused     *)
(* record and never raises.                                                *)
C4_NeverRaises == AggDone => ret.tag = "dict"

----------------------------------------------------------------------------
(* Calls of the three list-producing sub-steps *)

InitEngine == InitSplints \/ InitTerms \/ InitRecs

NextEngine == CallFuseSplints \/ CallFuseDiagnosisTerms \/ CallFuseRecommendations

SpecEngine == InitEngine /\ [][NextEngine]_vars

InUnitInterval(x) == RLe(<<0, 1>>, x) /\ RLe(x, <<1, 1>>)

(* C3: every membership, weight and priority in the output lies in [0,1]:  *)
(* each ranked option's membership of fuse_splints, each term's weight of  *)
(* fuse_diagnosis_terms for any w_clinical and each recommendation's       *)
(* priority of fuse_recommendations for any nih_priority_bonus.            *)
C3_ValuesInUnitInterval ==
  /\ SplintsReturned
     => \A i \in 1..Len(ret.v[2].v) : InUnitInterval(ret.v[2].v[i].v.membership.v)
  /\ (pc = "done" /\ args.op = "fuse_diagnosis_terms")
     => \A i \in 1..Len(ret.v[2].v) : InUnitInterval(ret.v[2].v[i].v.weight.v)
  /\ RecsDone
     => \A i \in 1..Len(ret.v) : InUnitInterval(ret.v[i].v.priority.v)

----------------------------------------------------------------------------
(* Calls of membership_triangular *)

(* the control points 0..MaxPoint *)
TriPoints == {Int2R(n) : n \in 0..MaxPoint}

(* x in steps of 1/2 from -1 to MaxPoint + 1 *)
TriXs == {Frac(k, 2) : k \in (-2)..(2 * MaxPoint + 2)}

TriArgs == [op : {"membership_triangular"}, x : TriXs, a : TriPoints, b : TriPoints, c : TriPoints]

InitTri == pc = "call" /\ args \in TriArgs /\ ret = Null /\ InitFiles

CallMembershipTriangular ==
  /\ pc = "call"
  /\ args.op = "membership_triangular"
  /\ ret' = F(membership_triangular(args.x, args.a, args.b, args.c))
  /\ pc' = "done"
  /\ UNCHANGED <<args, files, saved>>

NextTri == CallMembershipTriangular

SpecTri == InitTri /\ [][NextTri]_vars

TriDone == pc = "done" /\ args.op = "membership_triangular"

TriInterior == RLt(args.a, args.x) /\ RLt(args.x, args.c)

(* what the claim and its amendment share: with a < b < c the result is 0 *)
(* for x <= a and for x >= c and 1 at x = b; with a <= b <= c it lies in  *)
(* [0,1] for every x                                                      *)
TriOrdinary ==
  /\ (RLt(args.a, args.b) /\ RLt(args.b, args.c))
     => /\ (RLe(args.x, args.a) \/ RLe(args.c, args.x)) => ret.v = <<0, 1>>
        /\ args.x = args.b => ret.v = <<1, 1>>
  /\ (RLe(args.a, args.b) /\ RLe(args.b, args.c))
     => RLe(<<0, 1>>, ret.v) /\ RLe(ret.v, <<1, 1>>)

(* C11 as stated: membership_triangular(x, a, b, c) with a < b < c returns *)
(* 0 for x <= a and x >= c, 1 at x = b, and a value in [0,1] for every x;  *)
(* when a = b or b = c it returns 1 for interior x.                        *)
C11_TriangularAsClaimed ==
  TriDone
  => /\ TriOrdinary
     /\ (RLe(args.a, args.b) /\ RLe(args.b, args.c)
           /\ (args.a = args.b \/ args.b = args.c) /\ TriInterior)
        => ret.v = <<1, 1>>

(* C11 amended: as above, but when a = b < c the result for interior x is  *)
(* the falling side (c - x) / (c - b), and when a < b = c it is the rising *)
(* side (x - a) / (b - a): a value strictly between 0 and 1, reached       *)
(* without a division by zero.                                             *)
C11_TriangularDegenerateIsLinear ==
  TriDone
  => /\ TriOrdinary
     /\ (args.a = args.b /\ RLt(args.b, args.c) /\ TriInterior)
        => /\ RMul(ret.v, RSub(args.c, args.b)) = RSub(args.c, args.x)
           /\ RLt(<<0, 1>>, ret.v) /\ RLt(ret.v, <<1, 1>>)
     /\ (RLt(args.a, args.b) /\ args.b = args.c /\ TriInterior)
        => /\ RMul(ret.v, RSub(args.b, args.a)) = RSub(args.x, args.a)
           /\ RLt(<<0, 1>>, ret.v) /\ RLt(ret.v, <<1, 1>>)

(* an interior x of a triangle whose lower bound is its peak *)
C11_Witness ==
  /\ TriDone
  /\ args.a = args.b /\ RLt(args.b, args.c) /\ TriInterior
  /\ ret.v = <<1, 2>>

----------------------------------------------------------------------------
(* Frame of aggregate_two_agents *)

AggReturned == AggDone /\ ret.tag = "dict"

(* the keys aggregate_two_agents writes (lines 217-250) *)
EngineKeys ==
  {"confidence", "fused_confidence_numeric", "recommended_splint",
   "alternatives_with_scores", "aggregated_diagnosis_terms", "fused_recommendations",
   "nih_articles", "additional_splints_from_nih", "suggested_diagnosis_terms_from_nih"}

(* the first non-empty of two aliased lists, the empty list if there is none *)
FirstNonEmpty(d, k1, k2) ==
  IF k1 \in DOMAIN d /\ d[k1].tag = "list" /\ d[k1].v # <<>> THEN d[k1]
  ELSE IF k2 \in DOMAIN d /\ d[k2].tag = "list" /\ d[k2].v # <<>> THEN d[k2]
  ELSE L(<<>>)

(* C12: every key of the clinical record that the engine does not write    *)
(* appears in the fused record with the same value; the article list, the  *)
(* candidate-option list and the candidate-label list of the evidence      *)
(* record appear unchanged, the first non-empty alias being used for each  *)
(* of the two aliased lists.                                               *)
C12_FrameOfFusedRecord ==
  AggReturned
  => /\ \A k \in (DOMAIN args.agent1_result) \ EngineKeys :
          k \in DOMAIN ret.v /\ ret.v[k] = args.agent1_result[k]
     /\ ret.v["nih_articles"] = Get(args.agent2_result, "nih_articles")
     /\ ret.v["additional_splints_from_nih"] =
          FirstNonEmpty(args.agent2_result, "additional_splints_from_nih",
                        "additional_splints")
     /\ ret.v["suggested_diagnosis_terms_from_nih"] =
          FirstNonEmpty(args.agent2_result, "suggested_diagnosis_terms_from_nih",
                        "suggested_diagnosis_terms")

(* a returned call with clinical fields to keep, both option aliases       *)
(* non-empty and an empty first label alias before a non-empty second one  *)
C12_Witness ==
  /\ AggReturned
  /\ {"diagnosis_summary", "suggested_diagnosis", "other_recommendations"}
       \subseteq DOMAIN args.agent1_result
  /\ {"nih_articles", "additional_splints_from_nih", "additional_splints",
      "suggested_diagnosis_terms_from_nih", "suggested_diagnosis_terms"}
       \subseteq DOMAIN args.agent2_result
  /\ args.agent2_result["suggested_diagnosis_terms_from_nih"] = L(<<>>)
  /\ ret.v["suggested_diagnosis_terms_from_nih"] =
       args.agent2_result["suggested_diagnosis_terms"]
  /\ ret.v["additional_splints_from_nih"] =
       args.agent2_result["additional_splints_from_nih"]

(* the record the call returns is the object it built *)
ReturnedIsFusedObject ==
  AggReturned
  => ret.v = ObjectValue(aggregate_two_agents_heap(args.agent1_result, args.agent2_result,
                                                   args.w_clinical), "fused")

(* C13: aggregate_two_agents only reads its inputs: a call leaves the      *)
(* clinical record, its primary option record (which does not gain the     *)
(* ranked-option field), its alternatives list and the evidence record as  *)
(* they were, so a further call on the same inputs returns an equal        *)
(* record.                                                                 *)
C13_InputsOnlyRead ==
  [][/\ args' = args
     /\ pc = "done" => ret' = ret]_vars

(* a returned call whose primary option is a record of the caller: the     *)
(* returned copy has the ranked-option field, the caller's record has not  *)
C13_Witness ==
  /\ AggReturned
  /\ RecIsDict(args.agent1_result)
  /\ "alternatives" \in DOMAIN args.agent1_result["recommended_splint"].v
  /\ "alternatives_with_scores" \in DOMAIN ret.v["recommended_splint"].v
  /\ "alternatives_with_scores" \notin DOMAIN args.agent1_result["recommended_splint"].v
  /\ ret.v["alternatives_with_scores"].v # <<>>

----------------------------------------------------------------------------
(* Memberships of the ranked options *)

(* the number of articles whose title contains the name, case-insensitively *)
Mentions(name, nih_articles) ==
  LET arts == IF nih_articles.tag = "list" THEN nih_articles.v ELSE <<>>
      title(i) == IF "title" \in DOMAIN arts[i].v /\ arts[i].v["title"].tag = "str"
                  THEN arts[i].v["title"].v ELSE <<>>
  IN  Cardinality({i \in 1..Len(arts) : Contains(Lower(name), Lower(title(i)))})

MembershipOfMentions(k) ==
  CASE k = 0 -> <<0, 1>>
    [] k = 1 -> <<1, 1>>
    [] k = 2 -> <<67, 100>>
    [] k = 3 -> <<33, 100>>
    [] k >= 4 -> <<0, 1>>

----------------------------------------------------------------------------
(* The aggregated term list and the top-level clinical weight *)

AggregatedTerms(fused) == fused["aggregated_diagnosis_terms"].v

(* C15: the aggregated term list of aggregate_two_agents does not depend   *)
(* on the top-level clinical weight: a call with the same clinical and     *)
(* evidence records and any other clinical weight returns the same term    *)
(* list, whose clinical terms weigh 0.6 and whose evidence terms weigh 0.4. *)
C15_TermsIgnoreClinicalWeight ==
  AggReturned
  => /\ \A w \in AggWeights :
          LET other == aggregate_two_agents(args.agent1_result, args.agent2_result, w)
          IN  /\ other.tag = "dict"
              /\ AggregatedTerms(other.v) = AggregatedTerms(ret.v)
     /\ \A i \in 1..Len(AggregatedTerms(ret.v)) :
          LET t == AggregatedTerms(ret.v)[i].v
          IN  /\ t.source \in {S(Clinical), S(Nih)}
              /\ t.source = S(Clinical) => t.weight = F(<<3, 5>>)
              /\ t.source = S(Nih) => t.weight = F(<<2, 5>>)

(* a call with a clinical weight other than 0.6 whose term list has a      *)
(* clinical and an evidence term                                           *)
C15_Witness ==
  /\ AggReturned
  /\ args.w_clinical # <<3, 5>>
  /\ \E i, j \in 1..Len(AggregatedTerms(ret.v)) :
       /\ AggregatedTerms(ret.v)[i].v.source = S(Clinical)
       /\ AggregatedTerms(ret.v)[j].v.source = S(Nih)

----------------------------------------------------------------------------
(* The term list of fuse_diagnosis_terms *)

TermsDone == pc = "done" /\ args.op = "fuse_diagnosis_terms"

(* a label with a character that is not white space *)
NonBlankLabel(l) == l.tag = "str" /\ \E i \in 1..Len(l.v) : ~IsSpace(l.v[i])

(* the evidence labels of the call: strings, or None in place of a label *)
EvidenceLabels ==
  IF args.suggested_diagnosis_terms_from_nih.tag = "list"
  THEN args.suggested_diagnosis_terms_from_nih.v
  ELSE <<>>

EvidenceLabelsAreLabels ==
  \A i \in 1..Len(EvidenceLabels) : EvidenceLabels[i].tag \in {"str", "null"}

(* the term and source of every entry of a term list, in order *)
TermsAndSources(terms_out) ==
  [i \in 1..Len(terms_out) |-> <<terms_out[i].v.term, terms_out[i].v.source>>]

(* C16: fuse_diagnosis_terms returns the clinical label unchanged and a    *)
(* term list in insertion order: one clinical term first iff the label is  *)
(* non-blank after trimming, then one evidence term for each non-blank     *)
(* evidence label in input order; blank and whitespace-only labels are     *)
(* dropped and nothing is deduplicated.                                    *)
C16_TermsInInsertionOrder ==
  (TermsDone /\ EvidenceLabelsAreLabels)
  => LET kept == SelectSeq(EvidenceLabels, NonBlankLabel)
         clinical == IF NonBlankLabel(args.suggested_diagnosis)
                     THEN <<(<<S(Strip(args.suggested_diagnosis.v)), S(Clinical)>>)>>
                     ELSE <<>>
         evidence == [i \in 1..Len(kept) |-> <<S(Strip(kept[i].v)), S(Nih)>>]
     IN  /\ ret.tag = "tuple"
         /\ ret.v[1] = args.suggested_diagnosis
         /\ TermsAndSources(ret.v[2].v) = clinical \o evidence

(* a call whose clinical label and two evidence labels trim to the same    *)
(* term, returned three times                                              *)
C16_Witness ==
  /\ TermsDone
  /\ NonBlankLabel(args.suggested_diagnosis)
  /\ Len(EvidenceLabels) = 2
  /\ \A i \in 1..2 : /\ NonBlankLabel(EvidenceLabels[i])
                     /\ Strip(EvidenceLabels[i].v) = Strip(args.suggested_diagnosis.v)
  /\ Len(ret.v[2].v) = 3

----------------------------------------------------------------------------
(* The case store (main.py): save_case appends a case to the JSONL file,   *)
(* list_cases reads the file back.  The calls modelled are                 *)
(* save_case(case_id, {}, {}) with the default source and no Moltbook      *)
(* agent; JSON text is a sequence of code points like every other str.     *)

(* json.dumps of a str made of ASCII characters *)
RECURSIVE JsonEscape(_)
JsonEscape(s) ==
  IF s = <<>> THEN <<>>
  ELSE LET c == Head(s)
       IN  (CASE c = 34 -> <<92, 34>>
              [] c = 92 -> <<92, 92>>
              [] c = 10 -> <<92, 110>>
              [] OTHER -> <<c>>) \o JsonEscape(Tail(s))

JsonString(s) == <<34>> \o JsonEscape(s) \o <<34>>

(* the text json.dumps writes before and between the values of a record *)
(* {"case_id":  *)
KeyCaseId == <<123, 34, 99, 97, 115, 101, 95, 105, 100, 34, 58, 32>>
(* , "timestamp":  *)
KeyTimestamp == <<44, 32, 34, 116, 105, 109, 101, 115, 116, 97, 109, 112, 34, 58, 32>>
(* , "source":  *)
KeySource == <<44, 32, 34, 115, 111, 117, 114, 99, 101, 34, 58, 32>>
(* , "input": {}, "output": {}} *)
EmptyInputOutput == <<44, 32, 34, 105, 110, 112, 117, 116, 34, 58, 32, 123, 125, 44, 32, 34,
    111, 117, 116, 112, 117, 116, 34, 58, 32, 123, 125, 125>>

(* lines 222-228 and 232: json.dumps(record) *)
DumpsRecord(record) ==
  KeyCaseId \o JsonString(record.case_id.v)
    \o KeyTimestamp \o JsonString(record.timestamp.v)
    \o KeySource \o JsonString(record.source.v)
    \o EmptyInputOutput

(* lines 233-238: json.dumps(ft_line) for an empty input and response:     *)
(* {"messages": [{"role": "user", "content": "Problem: . Context: None."}, *)
(* {"role": "assistant", "content": "{}"}]}                                *)
DumpsFineTuneLine ==
  <<123, 34, 109, 101, 115, 115, 97, 103, 101, 115, 34, 58, 32, 91, 123, 34,
    114, 111, 108, 101, 34, 58, 32, 34, 117, 115, 101, 114, 34, 44, 32, 34,
    99, 111, 110, 116, 101, 110, 116, 34, 58, 32, 34, 80, 114, 111, 98, 108,
    101, 109, 58, 32, 46, 32, 67, 111, 110, 116, 101, 120, 116, 58, 32, 78,
    111, 110, 101, 46, 34, 125, 44, 32, 123, 34, 114, 111, 108, 101, 34, 58,
    32, 34, 97, 115, 115, 105, 115, 116, 97, 110, 116, 34, 44, 32, 34, 99,
    111, 110, 116, 101, 110, 116, 34, 58, 32, 34, 123, 125, 34, 125, 93, 125>>

(* open(path, "a") and one write: the file is created when it is missing *)
FileAppend(file, text) ==
  IF file.tag = "null" THEN S(text) ELSE S(file.v \o text)

(* for line in f: the text cut after every newline, a last line without  *)
(* a newline included                                                      *)
FileLines(text) ==
  LET starts == {i \in 1..Len(text) : i = 1 \/ text[i - 1] = 10}
      end(s) == IF \E i \in s..Len(text) : text[i] = 10
                THEN CHOOSE i \in s..Len(text) :
                       text[i] = 10 /\ \A k \in s..(i - 1) : text[k] # 10
                ELSE Len(text)
      start(j) == CHOOSE s \in starts : Cardinality({t \in starts : t <= s}) = j
  IN  [j \in 1..Cardinality(starts) |-> SubSeq(text, start(j), end(start(j)))]

(* the JSON string that starts after the quote before position i: its     *)
(* value and the position after its closing quote                          *)
RECURSIVE ScanString(_, _, _)
ScanString(text, i, acc) ==
  IF text[i] = 34 THEN [v |-> acc, next |-> i + 1]
  ELSE IF text[i] = 92
       THEN ScanString(text, i + 2, Append(acc, IF text[i + 1] = 110 THEN 10 ELSE text[i + 1]))
       ELSE ScanString(text, i + 1, Append(acc, text[i]))

(* json.loads of a line written by save_case *)
LoadsRecord(line) ==
  IF Len(line) < Len(KeyCaseId) \/ SubSeq(line, 1, Len(KeyCaseId)) # KeyCaseId
  THEN Raise("JSONDecodeError")
  ELSE LET id == ScanString(line, Len(KeyCaseId) + 2, <<>>)
           ts == ScanString(line, id.next + Len(KeyTimestamp) + 1, <<>>)
           src == ScanString(line, ts.next + Len(KeySource) + 1, <<>>)
       IN  IF SubSeq(line, src.next, Len(line)) # EmptyInputOutput
           THEN Raise("JSONDecodeError")
           ELSE D([case_id |-> S(id.v), timestamp |-> S(ts.v), source |-> S(src.v),
                   input |-> D(EmptyDict), output |-> D(EmptyDict)])

(* lines 384-389: the records of the non-empty lines, in file order *)
RECURSIVE ReadCases(_)
ReadCases(file_lines) ==
  IF file_lines = <<>> THEN <<>>
  ELSE LET line == Strip(Head(file_lines))
       IN  IF line # <<>>
           THEN <<LoadsRecord(line)>> \o ReadCases(Tail(file_lines))
           ELSE ReadCases(Tail(file_lines))

(* Python's seq[start:] *)
SliceFrom(seq, start) ==
  LET n == Len(seq)
      from == IF start < 0 THEN (IF n + start < 0 THEN 0 ELSE n + start)
              ELSE (IF start > n THEN n ELSE start)
  IN  SubSeq(seq, from + 1, n)

(* Python's seq[::-1] *)
Reversed(seq) == [i \in 1..Len(seq) |-> seq[Len(seq) + 1 - i]]

(* line 390: lines[-limit:] *)
LastCases(lines, limit) == SliceFrom(lines, 0 - limit)

(* lines 379-391 *)
list_cases(cases_file, limit) ==
  IF cases_file.tag = "null" THEN D([cases |-> L(<<>>)])
  ELSE LET lines == ReadCases(FileLines(cases_file.v))
       IN  D([cases |-> L(Reversed(LastCases(lines, limit)))])

(* lines 220-241: the files after save_case(case_id, {}, {}) at the given  *)
(* time                                                                    *)
save_case(fs, case_id, timestamp, source) ==
  LET record == [case_id |-> case_id, timestamp |-> timestamp, source |-> source]
  IN  [fs EXCEPT ![CASES_FILE] = FileAppend(@, Append(DumpsRecord(record), 10)),
                 ![FINE_TUNE_FILE] = FileAppend(@, Append(DumpsFineTuneLine, 10))]

(* the cases saved and the largest limit asked for *)
MaxCases == 3
MaxLimit == 4

(* three values of str(uuid.uuid4()) (line 273) *)
CaseIds ==
  {S(<<49, 98, 52, 101, 50, 56, 98, 97, 45, 50, 102, 97, 49, 45, 52, 49, 100,
       50, 45, 56, 56, 51, 102, 45, 48, 48, 49, 54, 100, 51, 99, 99, 97, 52,
       50, 55>>),
   S(<<54, 102, 97, 52, 53, 57, 101, 97, 45, 101, 101, 56, 97, 45, 52, 99, 97,
       52, 45, 56, 57, 52, 101, 45, 100, 98, 55, 55, 101, 49, 54, 48, 51, 53,
       53, 101>>),
   S(<<55, 100, 52, 52, 52, 56, 52, 48, 45, 57, 100, 99, 48, 45, 52, 49, 100,
       49, 45, 98, 50, 52, 53, 45, 53, 102, 102, 100, 99, 101, 55, 52, 102, 97,
       100, 50>>)}

(* a value of datetime.utcnow().isoformat() + "Z" *)
Timestamps ==
  {S(<<50, 48, 50, 54, 45, 48, 49, 45, 48, 49, 84, 48, 48, 58, 48, 48, 58, 48,
      48, 46, 48, 48, 48, 48, 48, 49, 90>>)}

(* "api", the default source *)
Sources == {S(<<97, 112, 105>>)}

InitCases == pc = "idle" /\ args = Null /\ ret = Null /\ InitFiles

SaveCase ==
  /\ Len(saved) < MaxCases
  /\ \E case_id \in CaseIds, timestamp \in Timestamps, source \in Sources :
       /\ files' = save_case(files, case_id, timestamp, source)
       /\ saved' = Append(saved, D([case_id |-> case_id, timestamp |-> timestamp,
                                    source |-> source,
                                    input |-> D(EmptyDict), output |-> D(EmptyDict)]))
       /\ args' = [op |-> "save_case", case_id |-> case_id, source |-> source]
  /\ ret' = Null
  /\ pc' = "save_case"

ListCases ==
  /\ \E limit \in 0..MaxLimit :
       /\ args' = [op |-> "list_cases", limit |-> limit]
       /\ ret' = list_cases(files[CASES_FILE], limit)
  /\ pc' = "list_cases"
  /\ UNCHANGED <<files, saved>>

NextCases == SaveCase \/ ListCases

SpecCases == InitCases /\ [][NextCases]_vars

ListCasesDone == pc = "list_cases"

Min(a, b) == IF a <= b THEN a ELSE b

(* C17: for every sequence of appended cases and every limit >= 0,         *)
(* list_cases(limit) returns at most limit cases, namely the min(limit, n) *)
(* most recently appended of the n cases, newest first.                    *)
C17_ListCasesReturnsLastLimit ==
  ListCasesDone
  => LET n == Len(saved)
         k == Min(args.limit, n)
         cases == ret.v.cases.v
     IN  /\ Len(cases) <= args.limit
         /\ cases = [i \in 1..k |-> saved[n + 1 - i]]

====
